---------------------------- MODULE Spec2Model ----------------------------
(***************************************************************************)
(* The NINA warning integration (homeassistant/components/nina):           *)
(* NINADataUpdateCoordinator polls the NINA client, filters the warnings   *)
(* and reshapes them into NinaWarningData records.                         *)
(*                                                                         *)
(* Encodings.  A Python str is a TLA+ string, except a headline, which is  *)
(* a sequence of one-character strings so that str.lower() and the `in`    *)
(* substring test are computed.  Python's None in a str field is the       *)
(* marker PyNone.  An optional mapping (the coordinator's data, the value  *)
(* returned by _async_update_data) is <<>> for None and <<m>> for the      *)
(* dict m.  A dict is a function from its keys.                            *)
(***************************************************************************)
EXTENDS Naturals, Sequences, FiniteSets, TLC

VARIABLES
    _regions,       \* self._regions: the configured region identifiers
    corona_filter,  \* self.corona_filter
    warnings,       \* self.warnings (set to {} in __init__, never written again)
    nina_regions,   \* the regions registered with the client (self._nina)
    nina_warnings,  \* self._nina.warnings: region id -> sequence of raw warnings
    valid_now,      \* the raw warnings whose isValid() answered True in the last _parse_data
    outcome,        \* how the last self._nina.update() ended: "none", "ok", "ApiError", "timeout"
    err,            \* the ApiError the last update raised (NoError when it raised none)
    raised,         \* what the last _async_update_data raised: "none", "UpdateFailed", "TimeoutError"
    cause,          \* __cause__ of the raised exception (NoError when there is none)
    ret,            \* the mapping the last _async_update_data returned, <<>> when it returned none
    data,           \* DataUpdateCoordinator.data: the stored snapshot, <<>> before the first success
    repeat          \* observer: how the last refresh relates to the one before it (see Repeat)

vars == <<_regions, corona_filter, warnings, nina_regions, nina_warnings, valid_now,
          outcome, err, raised, cause, ret, data, repeat>>

-----------------------------------------------------------------------------
(* Bounds and the finite input sets.                                       *)

\* At most this many warnings in one client mapping handed to _parse_data (SpecParse).
MaxWarnings == 3

\* At most this many warnings in one client mapping in the refresh cycle (Spec).
MaxFeed == 1

Regions == {"r1", "r2"}

ApiErrors == {"e1", "e2"}

NoError == "no-error"

PyNone == "<None>"

EmptyDict == [r \in {} |-> <<>>]

\* Headlines: "Corona", "Storm", "A CORONA b" and the near miss "Coron a".
HCorona == <<"C","o","r","o","n","a">>

HStorm == <<"S","t","o","r","m">>

HCoronaCaps == <<"A"," ","C","O","R","O","N","A"," ","b">>

HCoronNearMiss == <<"C","o","r","o","n"," ","a">>

W1 == [id |-> "w1", headline |-> HCorona, description |-> "d1", sender |-> "s1",
       severity |-> "Minor", sent |-> PyNone, start |-> "", expires |-> "T2"]

W2 == [id |-> "w2", headline |-> HStorm, description |-> "d2", sender |-> "s2",
       severity |-> "Severe", sent |-> "T1", start |-> PyNone, expires |-> ""]

W3 == [id |-> "w3", headline |-> HCoronaCaps, description |-> "d1", sender |-> "s2",
       severity |-> "Severe", sent |-> "", start |-> "T1", expires |-> PyNone]

W4 == [id |-> "w4", headline |-> HCoronNearMiss, description |-> "d2", sender |-> "s1",
       severity |-> "Minor", sent |-> "T1", start |-> "T1", expires |-> "T2"]

RawWarnings == {W1, W2, W3, W4}

FeedWarnings == {W1, W2}

SeqsUpTo(S, n) == UNION {[1..k -> S] : k \in 0..n}

RECURSIVE Total(_, _)
Total(m, K) ==
    IF K = {} THEN 0
    ELSE LET r == CHOOSE k \in K : TRUE
         IN Len(m[r]) + Total(m, K \ {r})

\* Every mapping from some regions to sequences over S holding at most n warnings.
Feeds(S, n) ==
    UNION {{m \in [K -> SeqsUpTo(S, n)] : Total(m, K) <= n} : K \in SUBSET Regions}

ParseInputs == Feeds(RawWarnings, MaxWarnings)

UpstreamFeeds == Feeds(FeedWarnings, MaxFeed)

\* The warnings a client mapping holds.
Present(m) == UNION {{m[r][i] : i \in 1..Len(m[r])} : r \in DOMAIN m}

\* The configurations the config flow hands over: a non-empty region mapping.
\* {"r2"} alone is left out: it is {"r1"} with the two identifiers exchanged.
RegionSets == {{"r1"}, {"r1", "r2"}}

-----------------------------------------------------------------------------
(* str.lower() and the substring test.                                     *)

ToLower ==
    ("A" :> "a") @@ ("B" :> "b") @@ ("C" :> "c") @@ ("D" :> "d") @@ ("E" :> "e") @@
    ("F" :> "f") @@ ("G" :> "g") @@ ("H" :> "h") @@ ("I" :> "i") @@ ("J" :> "j") @@
    ("K" :> "k") @@ ("L" :> "l") @@ ("M" :> "m") @@ ("N" :> "n") @@ ("O" :> "o") @@
    ("P" :> "p") @@ ("Q" :> "q") @@ ("R" :> "r") @@ ("S" :> "s") @@ ("T" :> "t") @@
    ("U" :> "u") @@ ("V" :> "v") @@ ("W" :> "w") @@ ("X" :> "x") @@ ("Y" :> "y") @@
    ("Z" :> "z")

lower_CaseSensitive(s) == s

lower(s) == [i \in 1..Len(s) |-> IF s[i] \in DOMAIN ToLower THEN ToLower[s[i]] ELSE s[i]]

\* Python's `sub in s` on strings.
Contains(sub, s) ==
    \E i \in 1..(Len(s) + 1) :
        /\ i + Len(sub) - 1 <= Len(s)
        /\ SubSeq(s, i, i + Len(sub) - 1) = sub

Corona == <<"c","o","r","o","n","a">>

\* The test of line 101: the warning is skipped.
Skipped(raw_warn, cf) == Contains(Corona, lower(raw_warn.headline)) /\ cf

-----------------------------------------------------------------------------
(* _parse_data.                                                            *)

OrEmpty_PassThrough(x) == x

\* Python's `x or ""` on an optional str: None and "" are falsy.
OrEmpty(x) == IF x = PyNone \/ x = "" THEN "" ELSE x

NinaWarningData_LowerHeadline(raw_warn, valid) ==
    [id |-> raw_warn.id, headline |-> lower(raw_warn.headline),
     description |-> raw_warn.description, sender |-> raw_warn.sender,
     severity |-> raw_warn.severity, sent |-> OrEmpty(raw_warn.sent),
     start |-> OrEmpty(raw_warn.start), expires |-> OrEmpty(raw_warn.expires),
     is_valid |-> raw_warn \in valid]

\* The record built at lines 104-114; valid holds the warnings whose isValid() is True now.
NinaWarningData(raw_warn, valid) ==
    [id |-> raw_warn.id, headline |-> raw_warn.headline,
     description |-> raw_warn.description, sender |-> raw_warn.sender,
     severity |-> raw_warn.severity, sent |-> OrEmpty(raw_warn.sent),
     start |-> OrEmpty(raw_warn.start), expires |-> OrEmpty(raw_warn.expires),
     is_valid |-> raw_warn \in valid]

RECURSIVE warnings_for_regions_Prepend(_, _, _)
warnings_for_regions_Prepend(raw_warnings, cf, valid) ==
    IF raw_warnings = <<>> THEN <<>>
    ELSE LET raw_warn == Head(raw_warnings)
             rest == warnings_for_regions_Prepend(Tail(raw_warnings), cf, valid)
         IN IF Skipped(raw_warn, cf) THEN rest
            ELSE rest \o <<NinaWarningData(raw_warn, valid)>>

\* The inner loop, lines 98-115: one region's records, appended in the client's order.
RECURSIVE warnings_for_regions(_, _, _)
warnings_for_regions(raw_warnings, cf, valid) ==
    IF raw_warnings = <<>> THEN <<>>
    ELSE LET raw_warn == Head(raw_warnings)
             rest == warnings_for_regions(Tail(raw_warnings), cf, valid)
         IN IF Skipped(raw_warn, cf) THEN rest
            ELSE <<NinaWarningData(raw_warn, valid)>> \o rest

_parse_data_ConfiguredRegions(nw, cf, valid) ==
    [region_id \in _regions |->
        IF region_id \in DOMAIN nw THEN warnings_for_regions(nw[region_id], cf, valid)
        ELSE <<>>]

_parse_data_OmitEmpty(nw, cf, valid) ==
    [region_id \in {r \in DOMAIN nw : warnings_for_regions(nw[r], cf, valid) # <<>>} |->
        warnings_for_regions(nw[region_id], cf, valid)]

_parse_data_Accumulate(nw, cf, valid) ==
    LET old == IF data = <<>> THEN EmptyDict ELSE data[1]
    IN [region_id \in DOMAIN nw |->
           (IF region_id \in DOMAIN old THEN old[region_id] ELSE <<>>)
               \o warnings_for_regions(nw[region_id], cf, valid)]

\* Lines 92-119: a fresh dict with one entry per key of the client's mapping.
_parse_data(nw, cf, valid) ==
    [region_id \in DOMAIN nw |-> warnings_for_regions(nw[region_id], cf, valid)]

-----------------------------------------------------------------------------
(* _async_update_data, lines 83-90.  oc is how self._nina.update() ended   *)
(* inside `async with timeout(10)`: "ok", "ApiError" (raising e), or       *)
(* "timeout", where the context manager cancels the call and raises        *)
(* asyncio.TimeoutError, which `except ApiError` does not catch.           *)

_async_update_data_TimeoutAsUpdateFailed(oc, e, nw, cf, valid) ==
    CASE oc = "ApiError" -> [raised |-> "UpdateFailed", cause |-> e, ret |-> <<>>]
      [] oc = "timeout"  -> [raised |-> "UpdateFailed", cause |-> NoError, ret |-> <<>>]
      [] OTHER           -> [raised |-> "none", cause |-> NoError,
                             ret |-> <<_parse_data(nw, cf, valid)>>]

_async_update_data_NoCause(oc, e, nw, cf, valid) ==
    CASE oc = "ApiError" -> [raised |-> "UpdateFailed", cause |-> NoError, ret |-> <<>>]
      [] oc = "timeout"  -> [raised |-> "TimeoutError", cause |-> NoError, ret |-> <<>>]
      [] OTHER           -> [raised |-> "none", cause |-> NoError,
                             ret |-> <<_parse_data(nw, cf, valid)>>]

_async_update_data_SwallowError(oc, e, nw, cf, valid) ==
    CASE oc = "timeout"  -> [raised |-> "TimeoutError", cause |-> NoError, ret |-> <<>>]
      [] OTHER           -> [raised |-> "none", cause |-> NoError,
                             ret |-> <<_parse_data(nw, cf, valid)>>]

_async_update_data(oc, e, nw, cf, valid) ==
    CASE oc = "ApiError" -> [raised |-> "UpdateFailed", cause |-> e, ret |-> <<>>]
      [] oc = "timeout"  -> [raised |-> "TimeoutError", cause |-> NoError, ret |-> <<>>]
      [] OTHER           -> [raised |-> "none", cause |-> NoError,
                             ret |-> <<_parse_data(nw, cf, valid)>>]

-----------------------------------------------------------------------------
(* Construction and the refresh cycle.                                     *)

\* __init__, lines 69-81: every configured region is registered with the client.
__init__(regions, filter) ==
    /\ _regions = regions
    /\ nina_regions = {region : region \in regions}
    /\ nina_warnings = EmptyDict
    /\ warnings = EmptyDict
    /\ corona_filter = filter

Init ==
    /\ \E regions \in RegionSets, filter \in BOOLEAN : __init__(regions, filter)
    /\ valid_now = {}
    /\ outcome = "none"
    /\ err = NoError
    /\ raised = "none"
    /\ cause = NoError
    /\ ret = <<>>
    /\ data = <<>>
    /\ repeat = "no"

\* Observer: "all" when this successful refresh directly follows a successful one
\* and the client reports the same warnings with the same isValid() answers,
\* "warnings" when only the warnings are the same, "no" otherwise.
Repeat(oc, m, valid) ==
    IF oc = "ok" /\ outcome = "ok" /\ m = nina_warnings
    THEN (IF valid = valid_now THEN "all" ELSE "warnings")
    ELSE "no"

\* DataUpdateCoordinator's refresh around _async_update_data: the returned mapping
\* replaces data; when _async_update_data raises, data is left as it is.
async_refresh(oc, e, m, valid) ==
    LET r == _async_update_data(oc, e, m, corona_filter, valid)
    IN /\ outcome' = oc
       /\ err' = e
       /\ nina_warnings' = m
       /\ valid_now' = valid
       /\ raised' = r.raised
       /\ cause' = r.cause
       /\ ret' = r.ret
       /\ data' = IF r.raised = "none" THEN r.ret ELSE data
       /\ repeat' = Repeat(oc, m, valid)
       /\ UNCHANGED <<_regions, corona_filter, warnings, nina_regions>>

\* A refresh whose client update succeeds: the client now holds the mapping m,
\* and isValid() answers True for exactly the warnings in valid.
RefreshOk ==
    \E m \in UpstreamFeeds : \E valid \in SUBSET Present(m) :
        async_refresh("ok", NoError, m, valid)

\* A refresh whose client update raises ApiError e; the client may have replaced
\* part or all of its mapping before it failed.  isValid() is not called.
RefreshApiError ==
    \E e \in ApiErrors : \E m \in UpstreamFeeds :
        async_refresh("ApiError", e, m, valid_now)

\* A refresh whose client update is cancelled by timeout(10).
RefreshTimeout ==
    \E m \in UpstreamFeeds :
        async_refresh("timeout", NoError, m, valid_now)

Next == RefreshOk \/ RefreshApiError \/ RefreshTimeout

Spec == Init /\ [][Next]_vars

-----------------------------------------------------------------------------
(* _parse_data as a function of the client's mapping: the coordinator      *)
(* right after a client update that succeeded, then one call.              *)

InitParse ==
    /\ \E regions \in RegionSets, filter \in BOOLEAN :
          /\ _regions = regions
          /\ nina_regions = regions
          /\ warnings = EmptyDict
          /\ corona_filter = filter
    /\ nina_warnings \in ParseInputs
    /\ valid_now \in SUBSET Present(nina_warnings)
    /\ outcome = "ok"
    /\ err = NoError
    /\ raised = "none"
    /\ cause = NoError
    /\ ret = <<>>
    /\ data = <<>>
    /\ repeat = "no"

ParseStep ==
    /\ ret = <<>>
    /\ ret' = <<_parse_data(nina_warnings, corona_filter, valid_now)>>
    /\ UNCHANGED <<_regions, corona_filter, warnings, nina_regions, nina_warnings,
                   valid_now, outcome, err, raised, cause, data, repeat>>

NextParse == ParseStep

SpecParse == InitParse /\ [][NextParse]_vars

-----------------------------------------------------------------------------
(* The claims.  ret and data hold <<m>> once a mapping m was returned or   *)
(* stored; the formulas below read m as ret[1] and data[1].                *)

\* The headlines of the input set that mention "corona" in some case, listed by hand.
CoronaHeadlines == {HCorona, HCoronaCaps}

\* The warning is one the filter rule says must be dropped.
Dropped(w) == corona_filter /\ w.headline \in CoronaHeadlines

Elems(s) == {s[i] : i \in 1..Len(s)}

Ids(s) == [i \in 1..Len(s) |-> s[i].id]

C2_ApiErrorRaisesUpdateFailed ==
    [][outcome' = "ApiError" =>
          /\ raised' = "UpdateFailed"
          /\ err' \in ApiErrors
          /\ cause' = err'
          /\ ret' = <<>>
          /\ data' = data]_vars

C2_Witness ==
    /\ outcome = "ApiError"
    /\ raised = "UpdateFailed"
    /\ cause = "e2"
    /\ data # <<>>
    /\ \E r \in DOMAIN data[1] : data[1][r] # <<>>
    /\ DOMAIN nina_warnings # DOMAIN data[1]

\* C3 as stated: every returned mapping has exactly the configured regions as keys.
C3_OneKeyPerConfiguredRegion ==
    ret # <<>> => DOMAIN ret[1] = _regions

\* C3 amended: when the client's mapping has exactly the configured regions as its
\* keys, the returned mapping has exactly one key per configured region, and a
\* region whose warnings are all dropped, or that has none, maps to <<>>.
C3_OneKeyPerReportedConfiguredRegion ==
    (ret # <<>> /\ DOMAIN nina_warnings = _regions) =>
        /\ DOMAIN ret[1] = _regions
        /\ \A r \in _regions :
              (\A w \in Elems(nina_warnings[r]) : Dropped(w)) => ret[1][r] = <<>>

C3_Witness ==
    /\ ret # <<>>
    /\ _regions = Regions
    /\ DOMAIN nina_warnings = _regions
    /\ DOMAIN ret[1] = _regions
    /\ \E r \in _regions : nina_warnings[r] # <<>> /\ ret[1][r] = <<>>
    /\ \E r \in _regions : nina_warnings[r] = <<>> /\ ret[1][r] = <<>>

\* C4: with the filter enabled, a warning whose headline contains "corona" in any
\* case has no record anywhere in the output; every other warning, and every
\* warning when the filter is disabled, has a record in its region's sequence.
C4_CoronaFilter ==
    ret # <<>> =>
        \A r \in DOMAIN nina_warnings : \A w \in Elems(nina_warnings[r]) :
            IF corona_filter /\ w.headline \in CoronaHeadlines
            THEN \A q \in DOMAIN ret[1] : \A rec \in Elems(ret[1][q]) : rec.id # w.id
            ELSE r \in DOMAIN ret[1] /\ \E rec \in Elems(ret[1][r]) : rec.id = w.id

C4_Witness ==
    /\ ret # <<>>
    /\ corona_filter
    /\ \E r \in DOMAIN nina_warnings :
          /\ Elems(nina_warnings[r]) = {W1, W3, W4}
          /\ Ids(ret[1][r]) = <<"w4">>

\* C5: in every record the sent, start and expires fields are strings: "" when the
\* client's value is None or "", the client's string otherwise, never None.
C5_TimestampsAreStrings ==
    ret # <<>> =>
        \A r \in DOMAIN ret[1] : \A rec \in Elems(ret[1][r]) :
            /\ r \in DOMAIN nina_warnings
            /\ \E w \in Elems(nina_warnings[r]) : w.id = rec.id
            /\ \A w \in Elems(nina_warnings[r]) : \A f \in {"sent", "start", "expires"} :
                  w.id = rec.id =>
                      /\ rec[f] # PyNone
                      /\ (w[f] \in {PyNone, ""} => rec[f] = "")
                      /\ (w[f] \notin {PyNone, ""} => rec[f] = w[f])

C5_Witness ==
    /\ ret # <<>>
    /\ \E r \in DOMAIN ret[1] :
          /\ nina_warnings[r] = <<W1, W2, W3>>
          /\ \E rec \in Elems(ret[1][r]) :
                rec.id = "w1" /\ rec.sent = "" /\ rec.start = "" /\ rec.expires = "T2"
          /\ \E rec \in Elems(ret[1][r]) :
                rec.id = "w3" /\ rec.sent = "" /\ rec.start = "T1" /\ rec.expires = ""

\* C6 as stated: two successful refreshes in a row with the client's warnings and
\* the filter flag unchanged return equal mappings and leave the snapshot equal.
C6_IdempotentOnWarnings ==
    [][(/\ outcome = "ok" /\ outcome' = "ok"
        /\ nina_warnings' = nina_warnings
        /\ corona_filter' = corona_filter) =>
           (ret' = ret /\ data' = data)]_vars

\* C6 amended: the same, provided the client's isValid() also answers the same
\* for every warning at both refreshes.
C6_IdempotentOnWarningsAndValidity ==
    [][(/\ outcome = "ok" /\ outcome' = "ok"
        /\ nina_warnings' = nina_warnings
        /\ corona_filter' = corona_filter
        /\ valid_now' = valid_now) =>
           (ret' = ret /\ data' = data)]_vars

C6_Witness ==
    /\ repeat = "all"
    /\ outcome = "ok"
    /\ data = ret
    /\ ret # <<>>
    /\ \E r \in DOMAIN ret[1] : ret[1][r] # <<>>

\* A snapshot built from nothing but the client's mapping nw.
DerivedFrom(d, nw) ==
    /\ DOMAIN d \subseteq DOMAIN nw
    /\ \A r \in DOMAIN d :
          /\ Len(d[r]) <= Len(nw[r])
          /\ \A rec \in Elems(d[r]) : \E w \in Elems(nw[r]) : w.id = rec.id

\* C7: the stored snapshot changes only by being replaced with the mapping a
\* successful refresh returned, which holds nothing but what the client reports
\* now; a refresh that fails or times out leaves the snapshot as it was.
C7_WholesaleReplacement ==
    [][/\ outcome' = "ok" =>
             (ret' # <<>> /\ data' = ret' /\ DerivedFrom(data'[1], nina_warnings'))
       /\ outcome' # "ok" => data' = data
       /\ data' # data => (outcome' = "ok" /\ data' = ret')]_vars

C7_Witness ==
    /\ outcome \in {"ApiError", "timeout"}
    /\ data # <<>>
    /\ \E r \in DOMAIN nina_warnings : r \notin DOMAIN data[1]
    /\ \E r \in DOMAIN data[1] : r \notin DOMAIN nina_warnings

\* C8: each region's records are the client's warnings of that region with the
\* dropped ones deleted, in the client's order, none duplicated.
C8_UpstreamOrder ==
    ret # <<>> =>
        \A r \in DOMAIN ret[1] :
            /\ r \in DOMAIN nina_warnings
            /\ LET in == nina_warnings[r]
                   out == ret[1][r]
                   K == {i \in 1..Len(in) : ~Dropped(in[i])}
                   Nth(j) == CHOOSE i \in K : Cardinality({k \in K : k <= i}) = j
               IN /\ Len(out) = Cardinality(K)
                  /\ \A j \in 1..Len(out) : j <= Cardinality(K) => out[j].id = in[Nth(j)].id

C8_Witness ==
    /\ ret # <<>>
    /\ corona_filter
    /\ \E r \in DOMAIN ret[1] :
          /\ nina_warnings[r] = <<W2, W1, W4>>
          /\ Ids(ret[1][r]) = <<"w2", "w4">>

\* The record carries the warning's fields, and the isValid() answer of this refresh.
SameContent(rec, w) ==
    /\ rec.id = w.id
    /\ rec.headline = w.headline
    /\ rec.description = w.description
    /\ rec.sender = w.sender
    /\ rec.severity = w.severity
    /\ rec.is_valid = (w \in valid_now)

\* C9: every record is a client warning of its region passed through unchanged,
\* and every warning that is not dropped has such a record, filter on or off.
C9_PassThrough ==
    ret # <<>> =>
        \A r \in DOMAIN ret[1] :
            /\ r \in DOMAIN nina_warnings
            /\ \A rec \in Elems(ret[1][r]) :
                  \E w \in Elems(nina_warnings[r]) : SameContent(rec, w)
            /\ \A w \in Elems(nina_warnings[r]) :
                  ~Dropped(w) => \E rec \in Elems(ret[1][r]) : SameContent(rec, w)

C9_Witness ==
    /\ ret # <<>>
    /\ corona_filter
    /\ \E r \in DOMAIN ret[1] :
          /\ \E rec \in Elems(ret[1][r]) :
                rec.id = "w2" /\ rec.headline = HStorm /\ rec.is_valid
          /\ \E rec \in Elems(ret[1][r]) :
                rec.id = "w4" /\ rec.headline = HCoronNearMiss /\ ~rec.is_valid

\* C10: the keys of the returned mapping are exactly the keys of the client's
\* mapping, whatever regions are configured.
C10_KeysAreClientKeys ==
    ret # <<>> => DOMAIN ret[1] = DOMAIN nina_warnings

C10_Witness ==
    /\ ret # <<>>
    /\ \E r \in _regions : r \notin DOMAIN nina_warnings /\ r \notin DOMAIN ret[1]
    /\ \E r \in DOMAIN nina_warnings : r \notin _regions /\ r \in DOMAIN ret[1]

=============================================================================
